---- MODULE Spec2Model ----
(***************************************************************************)
(* Data model and validation schemas of the switch maintenance tracker     *)
(* (app/models.py): UserRole / MaintenanceStatus, the three tables User,   *)
(* SwitchDevice, MaintenanceRecord with their column constraints, and the  *)
(* Create / Update schemas.  Strings are sequences of one-character        *)
(* strings, decimals are Python's Decimal.as_tuple() triples.              *)
(***************************************************************************)
EXTENDS Integers, Sequences, FiniteSets, TLC

VARIABLES users, devices, records, nextUserId, nextDeviceId, nextRecordId, now, served, inp, last

vars == <<users, devices, records, nextUserId, nextDeviceId, nextRecordId, now, served, inp, last>>

(***************************************************************************)
(* Bounds of the model.                                                    *)
(***************************************************************************)
MaxUsers == 2
MaxDevices == 2
MaxRecords == 1
MaxServed == 3

(***************************************************************************)
(* Field(max_length=...) ceilings.                                         *)
(***************************************************************************)
MaxUsername == 100
MaxEmail == 255
MaxNamaLengkap == 200
MaxNamaPerangkat == 200
MaxLokasi == 500
MaxModel == 100
MaxNomorSeri == 100
MaxIpAddress == 45
MaxNamaTeknisi == 200
MaxDeskripsi == 2000
MaxJenis == 50
MaxCatatan == 1000

(***************************************************************************)
(* Field(decimal_places=..., max_digits=...) of latitude and longitude,    *)
(* and the ranges the comments on those columns give.                      *)
(***************************************************************************)
DecimalPlaces == 8
LatMaxDigits == 11
LonMaxDigits == 12
LatRange == 90
LonRange == 180

(***************************************************************************)
(* Enumerations.                                                           *)
(***************************************************************************)
UserRoleLoose == {"Administrator", "Teknisi", "User", "administrator", "teknisi", "user"}

UserRole == {"Administrator", "Teknisi", "User"}

MaintenanceStatus == {"Selesai", "Tertunda", "Dalam Proses"}

(***************************************************************************)
(* Strings.                                                                *)
(***************************************************************************)
Rep(c, n) == [i \in 1..n |-> c]

Lower == {"a","b","c","d","e","f","g","h","i","j","k","l","m","n","o","p","q","r","s","t","u","v","w","x","y","z"}

Upper == {"A","B","C","D","E","F","G","H","I","J","K","L","M","N","O","P","Q","R","S","T","U","V","W","X","Y","Z"}

Digit == {"0","1","2","3","4","5","6","7","8","9"}

AllIn(s, lo, hi, cls) == \A k \in lo..hi : s[k] \in cls

\* regex r"^[a-zA-Z0-9_.+-]+@[a-zA-Z0-9-]+\.[a-zA-Z0-9-.]+$" of User.email
EmailMatches(s) ==
    LET n == Len(s)
        LocalCls == Lower \cup Upper \cup Digit \cup {"_", ".", "+", "-"}
        DomCls == Lower \cup Upper \cup Digit \cup {"-"}
        TldCls == Lower \cup Upper \cup Digit \cup {"-", "."}
    IN \E i \in 1..n : \E j \in 1..n :
          /\ 1 < i /\ i + 1 < j /\ j < n
          /\ s[i] = "@" /\ s[j] = "."
          /\ AllIn(s, 1, i - 1, LocalCls)
          /\ AllIn(s, i + 1, j - 1, DomCls)
          /\ AllIn(s, j + 1, n, TldCls)

(***************************************************************************)
(* Decimals: [sign, digits, exp] as Decimal.as_tuple() gives them; the     *)
(* value is (-1)^sign * digits * 10^exp.                                   *)
(***************************************************************************)
Dec(sg, ds, e) == [sign |-> sg, digits |-> ds, exp |-> e]

RECURSIVE StripZeros(_, _)
StripZeros(ds, e) ==
    IF Len(ds) > 1 /\ ds[Len(ds)] = 0
    THEN StripZeros(SubSeq(ds, 1, Len(ds) - 1), e + 1)
    ELSE IF ds = <<0>> THEN <<ds, 0>> ELSE <<ds, e>>

\* Decimal.normalize(): trailing zeros of the coefficient move into the exponent
Normalize(d) ==
    LET r == StripZeros(d.digits, d.exp) IN Dec(d.sign, r[1], r[2])

RECURSIVE SeqToNat(_)
SeqToNat(ds) ==
    IF ds = <<>> THEN 0 ELSE 10 * SeqToNat(SubSeq(ds, 1, Len(ds) - 1)) + ds[Len(ds)]

RECURSIVE Pow10(_)
Pow10(n) == IF n = 0 THEN 1 ELSE 10 * Pow10(n - 1)

\* integer part of |d|
Whole(d) ==
    IF d.exp >= 0 THEN SeqToNat(d.digits) * Pow10(d.exp)
    ELSE IF Len(d.digits) + d.exp <= 0 THEN 0
    ELSE SeqToNat(SubSeq(d.digits, 1, Len(d.digits) + d.exp))

\* whether |d| has a non-zero fractional part
HasFraction(d) ==
    /\ d.exp < 0
    /\ \E k \in 1..Len(d.digits) : k > Len(d.digits) + d.exp /\ d.digits[k] # 0

\* number of fractional digits written in d
FractionDigits(d) == IF d.exp < 0 THEN -d.exp ELSE 0

\* |d| <= b
AbsLeq(d, b) == Whole(d) < b \/ (Whole(d) = b /\ ~HasFraction(d))

\* the max_digits / decimal_places check of a Decimal field
DecimalErrors(d, maxDigits, places) ==
    LET nd == Normalize(d)
        decimals == IF nd.exp >= 0 THEN 0 ELSE -nd.exp
        digits == IF nd.exp >= 0 THEN Len(nd.digits) + nd.exp
                  ELSE IF decimals > Len(nd.digits) THEN decimals ELSE Len(nd.digits)
        whole == digits - decimals
    IN  (IF digits > maxDigits THEN {"decimal_max_digits"} ELSE {})
        \cup (IF decimals > places THEN {"decimal_max_places"} ELSE {})
        \cup (IF whole > maxDigits - places THEN {"decimal_whole_digits"} ELSE {})

(***************************************************************************)
(* Input objects.  An input is [vals, nulls]: vals maps the fields given   *)
(* with a value, nulls is the set of fields given as None; every other     *)
(* field is unset.  An error is <<field, type>>.                           *)
(***************************************************************************)
In(v) == [vals |-> v, nulls |-> {}]

Given(f, k) == k \in DOMAIN f.vals

With(f, k, v) == [vals |-> (k :> v) @@ f.vals, nulls |-> f.nulls \ {k}]

WithNull(f, k) == [vals |-> [j \in DOMAIN f.vals \ {k} |-> f.vals[j]], nulls |-> f.nulls \cup {k}]

Without(f, k) == [vals |-> [j \in DOMAIN f.vals \ {k} |-> f.vals[j]], nulls |-> f.nulls \ {k}]

\* a field with no default: it must be given, and not as None
Required(f, k) ==
    IF k \in f.nulls THEN {<<k, "none_not_allowed">>}
    ELSE IF ~Given(f, k) THEN {<<k, "missing">>} ELSE {}

\* a field with a default that is not Optional: None is refused
NotNone(f, k) == IF k \in f.nulls THEN {<<k, "none_not_allowed">>} ELSE {}

TooLong(f, k, max) ==
    IF Given(f, k) /\ Len(f.vals[k]) > max THEN {<<k, "string_too_long">>} ELSE {}

BadEnum(f, k, members) ==
    IF Given(f, k) /\ f.vals[k] \notin members THEN {<<k, "enum">>} ELSE {}

BadDecimal(f, k, maxDigits, places) ==
    IF Given(f, k) THEN {<<k, t>> : t \in DecimalErrors(f.vals[k], maxDigits, places)} ELSE {}

\* class UserCreate
UserCreateErrors(f) ==
    Required(f, "username") \cup TooLong(f, "username", MaxUsername)
    \cup Required(f, "email") \cup TooLong(f, "email", MaxEmail)
    \cup Required(f, "nama_lengkap") \cup TooLong(f, "nama_lengkap", MaxNamaLengkap)
    \cup NotNone(f, "role") \cup BadEnum(f, "role", UserRole)

\* class UserUpdate
UserUpdateErrors(f) ==
    TooLong(f, "username", MaxUsername)
    \cup TooLong(f, "email", MaxEmail)
    \cup TooLong(f, "nama_lengkap", MaxNamaLengkap)
    \cup BadEnum(f, "role", UserRole)

\* class SwitchDeviceCreate
SwitchDeviceCreateErrors(f) ==
    Required(f, "nama_perangkat") \cup TooLong(f, "nama_perangkat", MaxNamaPerangkat)
    \cup Required(f, "lokasi_perangkat") \cup TooLong(f, "lokasi_perangkat", MaxLokasi)
    \cup Required(f, "model") \cup TooLong(f, "model", MaxModel)
    \cup Required(f, "nomor_seri") \cup TooLong(f, "nomor_seri", MaxNomorSeri)
    \cup Required(f, "tanggal_implementasi")
    \cup Required(f, "ip_address") \cup TooLong(f, "ip_address", MaxIpAddress)
    \cup Required(f, "latitude") \cup BadDecimal(f, "latitude", LatMaxDigits, DecimalPlaces)
    \cup Required(f, "longitude") \cup BadDecimal(f, "longitude", LonMaxDigits, DecimalPlaces)

\* class SwitchDeviceUpdate
SwitchDeviceUpdateErrors(f) ==
    TooLong(f, "nama_perangkat", MaxNamaPerangkat)
    \cup TooLong(f, "lokasi_perangkat", MaxLokasi)
    \cup TooLong(f, "model", MaxModel)
    \cup TooLong(f, "nomor_seri", MaxNomorSeri)
    \cup TooLong(f, "ip_address", MaxIpAddress)
    \cup BadDecimal(f, "latitude", LatMaxDigits, DecimalPlaces)
    \cup BadDecimal(f, "longitude", LonMaxDigits, DecimalPlaces)

\* class MaintenanceRecordCreate
MaintenanceRecordCreateErrors(f) ==
    Required(f, "switch_device_id")
    \cup Required(f, "teknisi_id")
    \cup Required(f, "tanggal_maintenance")
    \cup Required(f, "nama_teknisi") \cup TooLong(f, "nama_teknisi", MaxNamaTeknisi)
    \cup Required(f, "deskripsi_pekerjaan") \cup TooLong(f, "deskripsi_pekerjaan", MaxDeskripsi)
    \cup NotNone(f, "status") \cup BadEnum(f, "status", MaintenanceStatus)
    \cup NotNone(f, "jenis_maintenance") \cup TooLong(f, "jenis_maintenance", MaxJenis)
    \cup NotNone(f, "catatan_tambahan") \cup TooLong(f, "catatan_tambahan", MaxCatatan)

\* class MaintenanceRecordUpdate
MaintenanceRecordUpdateErrors(f) ==
    TooLong(f, "nama_teknisi", MaxNamaTeknisi)
    \cup TooLong(f, "deskripsi_pekerjaan", MaxDeskripsi)
    \cup BadEnum(f, "status", MaintenanceStatus)
    \cup TooLong(f, "jenis_maintenance", MaxJenis)
    \cup TooLong(f, "catatan_tambahan", MaxCatatan)

(***************************************************************************)
(* Rows.  A row is built from the validated input's fields, the column     *)
(* defaults, the generated id and the two default_factory timestamps.      *)
(***************************************************************************)
Default(f, k, d) == IF Given(f, k) THEN f.vals[k] ELSE d

\* class User
NewUser(f, id, t1, t2) ==
    [id |-> id, username |-> f.vals.username, email |-> f.vals.email,
     nama_lengkap |-> f.vals.nama_lengkap, role |-> Default(f, "role", "User"),
     is_active |-> TRUE, created_at |-> t1, updated_at |-> t2]

\* class SwitchDevice
NewSwitchDevice(f, id, t1, t2) ==
    [id |-> id, nama_perangkat |-> f.vals.nama_perangkat,
     lokasi_perangkat |-> f.vals.lokasi_perangkat, model |-> f.vals.model,
     nomor_seri |-> f.vals.nomor_seri,
     tanggal_implementasi |-> f.vals.tanggal_implementasi,
     ip_address |-> f.vals.ip_address, latitude |-> f.vals.latitude,
     longitude |-> f.vals.longitude, created_at |-> t1, updated_at |-> t2]

\* class MaintenanceRecord
NewMaintenanceRecord(f, id, t1, t2) ==
    [id |-> id, switch_device_id |-> f.vals.switch_device_id,
     teknisi_id |-> f.vals.teknisi_id,
     tanggal_maintenance |-> f.vals.tanggal_maintenance,
     nama_teknisi |-> f.vals.nama_teknisi,
     deskripsi_pekerjaan |-> f.vals.deskripsi_pekerjaan,
     status |-> Default(f, "status", "Tertunda"),
     jenis_maintenance |-> Default(f, "jenis_maintenance", <<"P", "M">>),
     catatan_tambahan |-> Default(f, "catatan_tambahan", <<>>),
     created_at |-> t1, updated_at |-> t2]

AssignWithDefaults(row, f) ==
    [k \in DOMAIN row |->
        IF Given(f, k) THEN f.vals[k]
        ELSE IF k = "role" THEN "User"
        ELSE IF k = "status" THEN "Tertunda" ELSE row[k]]

\* the row after an Update input's set fields are assigned to it
Assign(row, f) == [k \in DOMAIN row |-> IF Given(f, k) THEN f.vals[k] ELSE row[k]]

(***************************************************************************)
(* Constraints the tables declare: unique columns, foreign keys, and NOT   *)
(* NULL on every column that is not Optional.                              *)
(***************************************************************************)
UsernameUniqueOnly(row, rows) ==
    \A o \in DOMAIN rows : o # row.id => rows[o].username # row.username

\* unique=True on User.username and User.email
UserUniqueOK(row, rows) ==
    \A o \in DOMAIN rows : o # row.id =>
        rows[o].username # row.username /\ rows[o].email # row.email

\* unique=True on SwitchDevice.nomor_seri
DeviceUniqueOK(row, rows) ==
    \A o \in DOMAIN rows : o # row.id => rows[o].nomor_seri # row.nomor_seri

DeviceFKOnly(row, us, ds) == row.switch_device_id \in DOMAIN ds

\* foreign_key="switch_devices.id" and foreign_key="users.id"
RecordFKOK(row, us, ds) ==
    row.switch_device_id \in DOMAIN ds /\ row.teknisi_id \in DOMAIN us

\* a user row some maintenance record's teknisi_id points to
UserReferenced(id, rs) == \E r \in DOMAIN rs : rs[r].teknisi_id = id

\* a device row some maintenance record's switch_device_id points to
DeviceReferenced(id, rs) == \E r \in DOMAIN rs : rs[r].switch_device_id = id

\* every updatable column is declared without Optional: None violates NOT NULL
NotNullOK(f) == f.nulls = {}

(***************************************************************************)
(* Sample values the inputs are drawn from.                                *)
(***************************************************************************)
UA == <<"a", "l", "i">>
UB == <<"b", "o", "b">>
EA == <<"u", "s", "e", "r", "@", "e", "x", "a", "m", "p", "l", "e", ".", "c", "o", "m">>
EB == <<"b", "@", "c", ".", "d", "e">>
BadEmail == <<"n", "o", "t", "-", "a", "n", "-", "e", "m", "a", "i", "l">>
NA == <<"A", "l", "i">>
NB == <<"B", "o", "b">>
P1 == <<"s", "w", "1">>
L1 == <<"r", "a", "c", "k">>
M1 == <<"c", "9", "k">>
S1 == <<"S", "N", "1">>
S2 == <<"S", "N", "2">>
IP1 == <<"1", "0", ".", "0", ".", "0", ".", "1">>
W1 == <<"f", "a", "n">>
D1 == [year |-> 2024, month |-> 1, day |-> 15]
D2 == [year |-> 2024, month |-> 1, day |-> 16]

RoleStrings == UserRole \cup {"administrator", "USER", ""}

StatusStrings == MaintenanceStatus \cup {"selesai", "Done", "Dalam proses"}

Latitudes == {Dec(0, <<1, 2, 3, 4, 5, 6, 7, 8, 9>>, -8),
              Dec(0, <<0>>, 0),
              Dec(1, <<9, 0>>, 0),
              Dec(0, <<9, 0, 0, 0, 0, 0, 0, 0, 0, 0>>, -8),
              Dec(0, <<4, 5, 5>>, -1),
              Dec(0, <<9, 0, 0, 0, 0, 0, 0, 0, 0, 1>>, -8),
              Dec(1, <<9, 1>>, 0),
              Dec(0, <<1, 0, 0>>, 0),
              Dec(0, <<9, 9, 9, 9, 9, 9, 9, 9, 9, 9, 9>>, -8),
              Dec(0, <<1, 0, 0, 0>>, 0),
              Dec(0, <<1, 2, 3, 4, 5, 6, 7, 8, 9, 1>>, -9),
              Dec(1, <<1, 2, 3, 4, 5>>, -1)}

Longitudes == {Dec(0, <<2, 3, 4, 5, 6, 7, 8, 9, 0>>, -8),
               Dec(0, <<1, 8, 0>>, 0),
               Dec(1, <<1, 8, 0, 0, 0, 0, 0, 0, 0, 0, 0>>, -8),
               Dec(1, <<1, 7, 9, 9, 9, 9, 9, 9, 9, 9, 9>>, -8),
               Dec(0, <<1, 8, 0, 0, 0, 0, 0, 0, 0, 0, 1>>, -8),
               Dec(0, <<2, 0, 0>>, 0),
               Dec(1, <<9, 9, 9, 9, 9, 9, 9, 9, 9, 9, 9, 9>>, -8),
               Dec(0, <<1, 0, 0, 0, 0>>, 0),
               Dec(0, <<2, 3, 4, 5, 6, 7, 8, 9, 0, 1>>, -9)}

Lat1 == Dec(0, <<1, 2, 3, 4, 5, 6, 7, 8, 9>>, -8)

Lon1 == Dec(0, <<2, 3, 4, 5, 6, 7, 8, 9, 0>>, -8)

BaseUser == In([username |-> UA, email |-> EA, nama_lengkap |-> NA])

OtherUser == In([username |-> UB, email |-> EB, nama_lengkap |-> NB, role |-> "Teknisi"])

UserCreateInputs ==
    {BaseUser, OtherUser,
     With(OtherUser, "username", UA), With(OtherUser, "email", EA),
     With(OtherUser, "email", BadEmail),
     With(BaseUser, "username", Rep("x", MaxUsername)),
     With(BaseUser, "username", Rep("x", MaxUsername + 1)),
     With(BaseUser, "email", Rep("x", MaxEmail - 4) \o EB),
     With(BaseUser, "email", Rep("x", MaxEmail - 5) \o EB),
     With(BaseUser, "nama_lengkap", Rep("x", MaxNamaLengkap + 1)),
     Without(BaseUser, "username"), Without(BaseUser, "email"),
     WithNull(BaseUser, "nama_lengkap"), WithNull(BaseUser, "role")}
    \cup {With(BaseUser, "role", r) : r \in RoleStrings}

UserUpdateInputs ==
    {In(<<>>),
     In([username |-> UA]), In([username |-> UB]),
     In([email |-> EA]), In([email |-> BadEmail]),
     In([nama_lengkap |-> NB]), In([is_active |-> FALSE]),
     In([username |-> UB, email |-> EB]),
     In([username |-> Rep("x", MaxUsername + 1), nama_lengkap |-> NB]),
     In([email |-> Rep("x", MaxEmail - 4) \o EB]),
     WithNull(In(<<>>), "role"), WithNull(In([nama_lengkap |-> NB]), "is_active")}
    \cup {In([role |-> r]) : r \in RoleStrings}

BaseDevice ==
    In([nama_perangkat |-> P1, lokasi_perangkat |-> L1, model |-> M1, nomor_seri |-> S1,
        tanggal_implementasi |-> D1, ip_address |-> IP1, latitude |-> Lat1, longitude |-> Lon1])

SwitchDeviceCreateInputs ==
    {BaseDevice, With(BaseDevice, "nomor_seri", S2),
     With(BaseDevice, "nama_perangkat", Rep("x", MaxNamaPerangkat + 1)),
     With(BaseDevice, "lokasi_perangkat", Rep("x", MaxLokasi + 1)),
     With(BaseDevice, "model", Rep("x", MaxModel + 1)),
     With(BaseDevice, "nomor_seri", Rep("x", MaxNomorSeri + 1)),
     With(BaseDevice, "ip_address", Rep("x", MaxIpAddress + 1)),
     Without(BaseDevice, "latitude"), WithNull(BaseDevice, "longitude")}
    \cup {With(BaseDevice, "latitude", d) : d \in Latitudes}
    \cup {With(BaseDevice, "longitude", d) : d \in Longitudes}

SwitchDeviceUpdateInputs ==
    {In(<<>>), In([nomor_seri |-> S1]), In([nomor_seri |-> S2]),
     In([tanggal_implementasi |-> D2]),
     In([model |-> Rep("x", MaxModel + 1), nomor_seri |-> S2]),
     WithNull(In(<<>>), "ip_address")}
    \cup {In([latitude |-> d]) : d \in Latitudes}
    \cup {In([longitude |-> d]) : d \in Longitudes}

BaseRecord ==
    In([switch_device_id |-> 1, teknisi_id |-> 1, tanggal_maintenance |-> D1,
        nama_teknisi |-> NA, deskripsi_pekerjaan |-> W1])

MaintenanceRecordCreateInputs ==
    {BaseRecord, With(BaseRecord, "nama_teknisi", NB),
     With(BaseRecord, "nama_teknisi", Rep("x", MaxNamaTeknisi + 1)),
     With(BaseRecord, "deskripsi_pekerjaan", Rep("x", MaxDeskripsi + 1)),
     With(BaseRecord, "jenis_maintenance", <<"C", "M">>),
     With(BaseRecord, "jenis_maintenance", Rep("x", MaxJenis + 1)),
     With(BaseRecord, "catatan_tambahan", Rep("x", MaxCatatan + 1)),
     Without(BaseRecord, "teknisi_id"), WithNull(BaseRecord, "status")}
    \cup {With(BaseRecord, "switch_device_id", i) : i \in 1..(MaxDevices + 1)}
    \cup {With(BaseRecord, "teknisi_id", i) : i \in 1..(MaxUsers + 1)}
    \cup {With(BaseRecord, "status", x) : x \in StatusStrings}

MaintenanceRecordUpdateInputs ==
    {In(<<>>), In([nama_teknisi |-> NB]), In([tanggal_maintenance |-> D2]),
     In([nama_teknisi |-> NA, catatan_tambahan |-> W1]),
     In([deskripsi_pekerjaan |-> Rep("x", MaxDeskripsi + 1), status |-> "Selesai"]),
     WithNull(In(<<>>), "status")}
    \cup {In([status |-> x]) : x \in {"Selesai", "Dalam proses"}}

(***************************************************************************)
(* The requests the stored tables are driven with.                         *)
(***************************************************************************)
UserCreateRequests ==
    {BaseUser, OtherUser,
     With(With(OtherUser, "username", UA), "role", "Administrator"),
     With(OtherUser, "email", EA),
     With(OtherUser, "email", BadEmail),
     With(BaseUser, "username", Rep("x", MaxUsername + 1))}
    \cup {With(BaseUser, "role", r) : r \in {"User", "USER"}}

UserUpdateRequests ==
    {In([nama_lengkap |-> NB]), In([username |-> UB, email |-> EB]),
     In([email |-> EA]), In([email |-> BadEmail]),
     WithNull(In([nama_lengkap |-> NB]), "is_active")}
    \cup {In([role |-> r]) : r \in {"Administrator", "Teknisi", "administrator"}}

SwitchDeviceCreateRequests ==
    {BaseDevice, With(BaseDevice, "nomor_seri", S2),
     With(BaseDevice, "latitude", Dec(0, <<1, 0, 0>>, 0)),
     With(BaseDevice, "latitude", Dec(0, <<1, 0, 0, 0>>, 0)),
     Without(BaseDevice, "longitude")}

SwitchDeviceUpdateRequests ==
    {In([nomor_seri |-> S2]),
     In([longitude |-> Dec(1, <<2, 0, 0>>, 0)]),
     In([longitude |-> Dec(0, <<1, 0, 0, 0, 0>>, 0), nomor_seri |-> S2]),
     WithNull(In(<<>>), "ip_address")}

MaintenanceRecordCreateRequests ==
    {BaseRecord, With(BaseRecord, "nama_teknisi", NB),
     With(BaseRecord, "teknisi_id", 2), With(BaseRecord, "teknisi_id", MaxUsers + 1),
     With(BaseRecord, "switch_device_id", MaxDevices + 1),
     Without(BaseRecord, "teknisi_id")}
    \cup {With(BaseRecord, "status", x) : x \in {"Selesai", "Dalam Proses", "selesai"}}

MaintenanceRecordUpdateRequests ==
    {In(<<>>), In([nama_teknisi |-> NB]),
     In([tanggal_maintenance |-> D2, catatan_tambahan |-> W1]),
     In([deskripsi_pekerjaan |-> Rep("x", MaxDeskripsi + 1), status |-> "Selesai"]),
     WithNull(In(<<>>), "status")}
    \cup {In([status |-> x]) : x \in {"Selesai", "Dalam proses"}}

(***************************************************************************)
(* State.  users, devices and records map the ids of the stored rows to    *)
(* the rows; inp is the input object of the last operation and last its    *)
(* outcome.                                                                *)
(***************************************************************************)
Outcome(op, id, result, errors) == [op |-> op, id |-> id, result |-> result, errors |-> errors]

Init ==
    /\ users = <<>>
    /\ devices = <<>>
    /\ records = <<>>
    /\ nextUserId = 1
    /\ nextDeviceId = 1
    /\ nextRecordId = 1
    /\ now = 0
    /\ served = 0
    /\ inp = In(<<>>)
    /\ last = Outcome("none", 0, "ok", {})

Put(rows, row) == (row.id :> row) @@ rows

Drop(rows, id) == [k \in DOMAIN rows \ {id} |-> rows[k]]

FailAfterFlush(op, id, f, result, errors) ==
    /\ inp' = f
    /\ last' = Outcome(op, id, result, errors)
    /\ nextUserId' = nextUserId + 1
    /\ UNCHANGED <<users, devices, records, nextDeviceId, nextRecordId, now, served>>

\* an operation that ends in an error: nothing is written
Fail(op, id, f, result, errors) ==
    /\ inp' = f
    /\ last' = Outcome(op, id, result, errors)
    /\ UNCHANGED <<users, devices, records, nextUserId, nextDeviceId, nextRecordId, now, served>>

\* an operation that is carried out
Done(op, id, f) ==
    /\ inp' = f
    /\ last' = Outcome(op, id, "ok", {})

CreateUser(f) ==
    /\ nextUserId <= MaxUsers
    /\ LET errs == UserCreateErrors(f)
           \* datetime.utcnow() has moved on since the last write
           row == NewUser(f, nextUserId, now + 1, now + 1)
       IN  IF errs # {} THEN Fail("CreateUser", 0, f, "ValidationError", errs)
           ELSE IF ~UserUniqueOK(row, users) THEN Fail("CreateUser", 0, f, "IntegrityError", {})
           ELSE /\ served < MaxServed
                /\ served' = served + 1
                /\ now' = now + 1
                /\ users' = Put(users, row)
                /\ nextUserId' = nextUserId + 1
                /\ Done("CreateUser", row.id, f)
                /\ UNCHANGED <<devices, records, nextDeviceId, nextRecordId>>

UpdateUser(id, f) ==
    /\ id \in DOMAIN users
    /\ LET errs == UserUpdateErrors(f)
           row == Assign(users[id], f)
       IN  IF errs # {} THEN Fail("UpdateUser", id, f, "ValidationError", errs)
           ELSE IF ~NotNullOK(f) \/ ~UserUniqueOK(row, users)
                THEN Fail("UpdateUser", id, f, "IntegrityError", {})
           ELSE /\ served < MaxServed
                /\ served' = served + 1
                /\ now' = now + 1
                /\ users' = Put(users, row)
                /\ Done("UpdateUser", id, f)
                /\ UNCHANGED <<devices, records, nextUserId, nextDeviceId, nextRecordId>>

DeleteUser(id) ==
    /\ id \in DOMAIN users
    /\ IF UserReferenced(id, records) THEN Fail("DeleteUser", id, In(<<>>), "IntegrityError", {})
       ELSE /\ users' = Drop(users, id)
            /\ Done("DeleteUser", id, In(<<>>))
            /\ UNCHANGED <<devices, records, nextUserId, nextDeviceId, nextRecordId, now, served>>

CreateSwitchDevice(f) ==
    /\ nextDeviceId <= MaxDevices
    /\ LET errs == SwitchDeviceCreateErrors(f)
           row == NewSwitchDevice(f, nextDeviceId, now + 1, now + 1)
       IN  IF errs # {} THEN Fail("CreateSwitchDevice", 0, f, "ValidationError", errs)
           ELSE IF ~DeviceUniqueOK(row, devices)
                THEN Fail("CreateSwitchDevice", 0, f, "IntegrityError", {})
           ELSE /\ served < MaxServed
                /\ served' = served + 1
                /\ now' = now + 1
                /\ devices' = Put(devices, row)
                /\ nextDeviceId' = nextDeviceId + 1
                /\ Done("CreateSwitchDevice", row.id, f)
                /\ UNCHANGED <<users, records, nextUserId, nextRecordId>>

UpdateSwitchDevice(id, f) ==
    /\ id \in DOMAIN devices
    /\ LET errs == SwitchDeviceUpdateErrors(f)
           row == Assign(devices[id], f)
       IN  IF errs # {} THEN Fail("UpdateSwitchDevice", id, f, "ValidationError", errs)
           ELSE IF ~NotNullOK(f) \/ ~DeviceUniqueOK(row, devices)
                THEN Fail("UpdateSwitchDevice", id, f, "IntegrityError", {})
           ELSE /\ served < MaxServed
                /\ served' = served + 1
                /\ now' = now + 1
                /\ devices' = Put(devices, row)
                /\ Done("UpdateSwitchDevice", id, f)
                /\ UNCHANGED <<users, records, nextUserId, nextDeviceId, nextRecordId>>

DeleteSwitchDevice(id) ==
    /\ id \in DOMAIN devices
    /\ IF DeviceReferenced(id, records)
       THEN Fail("DeleteSwitchDevice", id, In(<<>>), "IntegrityError", {})
       ELSE /\ devices' = Drop(devices, id)
            /\ Done("DeleteSwitchDevice", id, In(<<>>))
            /\ UNCHANGED <<users, records, nextUserId, nextDeviceId, nextRecordId, now, served>>

CreateMaintenanceRecord(f) ==
    /\ nextRecordId <= MaxRecords
    /\ LET errs == MaintenanceRecordCreateErrors(f)
           row == NewMaintenanceRecord(f, nextRecordId, now + 1, now + 1)
       IN  IF errs # {} THEN Fail("CreateMaintenanceRecord", 0, f, "ValidationError", errs)
           ELSE IF ~RecordFKOK(row, users, devices)
                THEN Fail("CreateMaintenanceRecord", 0, f, "IntegrityError", {})
           ELSE /\ served < MaxServed
                /\ served' = served + 1
                /\ now' = now + 1
                /\ records' = Put(records, row)
                /\ nextRecordId' = nextRecordId + 1
                /\ Done("CreateMaintenanceRecord", row.id, f)
                /\ UNCHANGED <<users, devices, nextUserId, nextDeviceId>>

UpdateMaintenanceRecord(id, f) ==
    /\ id \in DOMAIN records
    /\ LET errs == MaintenanceRecordUpdateErrors(f)
           row == Assign(records[id], f)
       IN  IF errs # {} THEN Fail("UpdateMaintenanceRecord", id, f, "ValidationError", errs)
           ELSE IF ~NotNullOK(f) THEN Fail("UpdateMaintenanceRecord", id, f, "IntegrityError", {})
           ELSE /\ served < MaxServed
                /\ served' = served + 1
                /\ now' = now + 1
                /\ records' = Put(records, row)
                /\ Done("UpdateMaintenanceRecord", id, f)
                /\ UNCHANGED <<users, devices, nextUserId, nextDeviceId, nextRecordId>>

DeleteMaintenanceRecord(id) ==
    /\ id \in DOMAIN records
    /\ records' = Drop(records, id)
    /\ Done("DeleteMaintenanceRecord", id, In(<<>>))
    /\ UNCHANGED <<users, devices, nextUserId, nextDeviceId, nextRecordId, now, served>>

Next ==
    \/ \E f \in UserCreateRequests : CreateUser(f)
    \/ \E id \in 1..MaxUsers : \E f \in UserUpdateRequests : UpdateUser(id, f)
    \/ \E id \in 1..MaxUsers : DeleteUser(id)
    \/ \E f \in SwitchDeviceCreateRequests : CreateSwitchDevice(f)
    \/ \E id \in 1..MaxDevices : \E f \in SwitchDeviceUpdateRequests : UpdateSwitchDevice(id, f)
    \/ \E id \in 1..MaxDevices : DeleteSwitchDevice(id)
    \/ \E f \in MaintenanceRecordCreateRequests : CreateMaintenanceRecord(f)
    \/ \E id \in 1..MaxRecords : \E f \in MaintenanceRecordUpdateRequests : UpdateMaintenanceRecord(id, f)
    \/ \E id \in 1..MaxRecords : DeleteMaintenanceRecord(id)

Spec == Init /\ [][Next]_vars

(***************************************************************************)
(* Validation alone: building a Create / Update schema object from an      *)
(* input, with nothing stored.                                             *)
(***************************************************************************)
Validate(schema, f, errs) ==
    /\ inp' = f
    /\ last' = Outcome(schema, 0, IF errs = {} THEN "ok" ELSE "ValidationError", errs)
    /\ UNCHANGED <<users, devices, records, nextUserId, nextDeviceId, nextRecordId, now, served>>

ValidateUserCreate(f) == Validate("UserCreate", f, UserCreateErrors(f))

ValidateUserUpdate(f) == Validate("UserUpdate", f, UserUpdateErrors(f))

ValidateSwitchDeviceCreate(f) == Validate("SwitchDeviceCreate", f, SwitchDeviceCreateErrors(f))

ValidateSwitchDeviceUpdate(f) == Validate("SwitchDeviceUpdate", f, SwitchDeviceUpdateErrors(f))

ValidateMaintenanceRecordCreate(f) ==
    Validate("MaintenanceRecordCreate", f, MaintenanceRecordCreateErrors(f))

ValidateMaintenanceRecordUpdate(f) ==
    Validate("MaintenanceRecordUpdate", f, MaintenanceRecordUpdateErrors(f))

NextValidate ==
    \/ \E f \in UserCreateInputs : ValidateUserCreate(f)
    \/ \E f \in UserUpdateInputs : ValidateUserUpdate(f)
    \/ \E f \in SwitchDeviceCreateInputs : ValidateSwitchDeviceCreate(f)
    \/ \E f \in SwitchDeviceUpdateInputs : ValidateSwitchDeviceUpdate(f)
    \/ \E f \in MaintenanceRecordCreateInputs : ValidateMaintenanceRecordCreate(f)
    \/ \E f \in MaintenanceRecordUpdateInputs : ValidateMaintenanceRecordUpdate(f)

SpecValidate == Init /\ [][NextValidate]_vars

(***************************************************************************)
(* Constraints the table classes declare on their own fields.              *)
(***************************************************************************)
\* class User
UserConstraints(row) ==
    /\ Len(row.username) <= MaxUsername
    /\ Len(row.email) <= MaxEmail
    /\ EmailMatches(row.email)
    /\ Len(row.nama_lengkap) <= MaxNamaLengkap
    /\ row.role \in UserRole

\* class SwitchDevice, with the ranges its comments give for the coordinates
SwitchDeviceConstraints(row) ==
    /\ Len(row.nama_perangkat) <= MaxNamaPerangkat
    /\ Len(row.lokasi_perangkat) <= MaxLokasi
    /\ Len(row.model) <= MaxModel
    /\ Len(row.nomor_seri) <= MaxNomorSeri
    /\ Len(row.ip_address) <= MaxIpAddress
    /\ DecimalErrors(row.latitude, LatMaxDigits, DecimalPlaces) = {}
    /\ DecimalErrors(row.longitude, LonMaxDigits, DecimalPlaces) = {}
    /\ AbsLeq(row.latitude, LatRange)
    /\ AbsLeq(row.longitude, LonRange)

\* class MaintenanceRecord
MaintenanceRecordConstraints(row) ==
    /\ Len(row.nama_teknisi) <= MaxNamaTeknisi
    /\ Len(row.deskripsi_pekerjaan) <= MaxDeskripsi
    /\ row.status \in MaintenanceStatus
    /\ Len(row.jenis_maintenance) <= MaxJenis
    /\ Len(row.catatan_tambahan) <= MaxCatatan

(***************************************************************************)
(* Properties.                                                             *)
(***************************************************************************)
Ok(op) == last.op = op /\ last.result = "ok"

ErrorFields == {e[1] : e \in last.errors}

\* C1: the entity built from an accepted Create input satisfies every field
\* constraint of its table: length ceilings, the email pattern, the precision
\* and range of latitude and longitude, and membership of role and status.
C1_CreatedEntitySatisfiesConstraints ==
    /\ Ok("CreateUser") /\ last.id \in DOMAIN users => UserConstraints(users[last.id])
    /\ Ok("CreateSwitchDevice") /\ last.id \in DOMAIN devices
          => SwitchDeviceConstraints(devices[last.id])
    /\ Ok("CreateMaintenanceRecord") /\ last.id \in DOMAIN records
          => MaintenanceRecordConstraints(records[last.id])

CoordinateChecked(k, range) ==
    Given(inp, k) =>
        /\ ~AbsLeq(inp.vals[k], range) => k \in ErrorFields
        /\ AbsLeq(inp.vals[k], range) /\ FractionDigits(inp.vals[k]) <= 8 => k \notin ErrorFields

\* C2: validating a SwitchDevice Create or Update input rejects a latitude
\* outside [-90, 90] and a longitude outside [-180, 180], and accepts a value
\* within the range that has at most 8 fractional digits.
C2_CoordinateRangeEnforced ==
    last.op \in {"SwitchDeviceCreate", "SwitchDeviceUpdate"} =>
        CoordinateChecked("latitude", 90) /\ CoordinateChecked("longitude", 180)

\* C3: validating a user's Create or Update input accepts an email that
\* matches the address pattern and rejects one that does not, so no stored
\* User has an email that does not match.
C3_EmailPatternEnforced ==
    /\ last.op \in {"CreateUser", "UpdateUser"} /\ Given(inp, "email") =>
          /\ ~EmailMatches(inp.vals.email) => "email" \in ErrorFields
          /\ EmailMatches(inp.vals.email) /\ Len(inp.vals.email) <= 255
                => "email" \notin ErrorFields
    /\ \A u \in DOMAIN users : EmailMatches(users[u].email)

\* C4: a role is accepted exactly when it is "Administrator", "Teknisi" or
\* "User", a status exactly when it is "Selesai", "Tertunda" or "Dalam Proses"
\* (case-sensitive); any other string gets an enum error on that field, and
\* every stored role and status is one of these members.
C4_EnumMembersExact ==
    /\ last.op \in {"CreateUser", "UpdateUser"} /\ Given(inp, "role") =>
          (<<"role", "enum">> \in last.errors
              <=> inp.vals.role \notin {"Administrator", "Teknisi", "User"})
    /\ last.op \in {"CreateMaintenanceRecord", "UpdateMaintenanceRecord"} /\ Given(inp, "status") =>
          (<<"status", "enum">> \in last.errors
              <=> inp.vals.status \notin {"Selesai", "Tertunda", "Dalam Proses"})
    /\ \A u \in DOMAIN users : users[u].role \in {"Administrator", "Teknisi", "User"}
    /\ \A r \in DOMAIN records : records[r].status \in {"Selesai", "Tertunda", "Dalam Proses"}

C4_Witness ==
    /\ last.op = "UpdateUser" /\ last.result = "ValidationError"
    /\ Given(inp, "role") /\ inp.vals.role = "administrator"
    /\ \E u \in DOMAIN users : users[u].role = "Administrator"
    /\ \E r \in DOMAIN records : records[r].status = "Dalam Proses"

\* rows' is rows with exactly the fields given in f overwritten in row id
OnlyGivenFieldsChange(rows, rowsAfter, id, f) ==
    /\ DOMAIN rowsAfter = DOMAIN rows
    /\ id \in DOMAIN rows
    /\ \A o \in DOMAIN rows : o # id => rowsAfter[o] = rows[o]
    /\ \A k \in DOMAIN rows[id] :
          rowsAfter[id][k] = IF k \in DOMAIN f.vals THEN f.vals[k] ELSE rows[id][k]

SchemaFields(op) ==
    IF op \in {"CreateUser", "UpdateUser"}
    THEN {"username", "email", "nama_lengkap", "role", "is_active"}
    ELSE IF op \in {"CreateSwitchDevice", "UpdateSwitchDevice"}
    THEN {"nama_perangkat", "lokasi_perangkat", "model", "nomor_seri",
          "tanggal_implementasi", "ip_address", "latitude", "longitude"}
    ELSE {"switch_device_id", "teknisi_id", "tanggal_maintenance", "nama_teknisi",
          "deskripsi_pekerjaan", "status", "jenis_maintenance", "catatan_tambahan"}

SchemaErrors(op, f) ==
    IF op = "CreateUser" THEN UserCreateErrors(f)
    ELSE IF op = "UpdateUser" THEN UserUpdateErrors(f)
    ELSE IF op = "CreateSwitchDevice" THEN SwitchDeviceCreateErrors(f)
    ELSE IF op = "UpdateSwitchDevice" THEN SwitchDeviceUpdateErrors(f)
    ELSE IF op = "CreateMaintenanceRecord" THEN MaintenanceRecordCreateErrors(f)
    ELSE IF op = "UpdateMaintenanceRecord" THEN MaintenanceRecordUpdateErrors(f)
    ELSE {}

\* C6: an operation whose input fails validation ends in an error that names
\* a field of that input's schema, and writes nothing: the stored users,
\* switch devices and maintenance records are as before; whether and how an
\* input fails depends on that input alone, not on what was stored or
\* validated before.
C6_ValidationFailureWritesNothing ==
    [][/\ last'.result = "ValidationError" <=> SchemaErrors(last'.op, inp') # {}
       /\ last'.result = "ValidationError" =>
          /\ last'.errors = SchemaErrors(last'.op, inp')
          /\ users' = users /\ devices' = devices /\ records' = records
          /\ nextUserId' = nextUserId /\ nextDeviceId' = nextDeviceId
          /\ nextRecordId' = nextRecordId
          /\ last'.errors # {}
          /\ \A e \in last'.errors : e[1] \in SchemaFields(last'.op)
          /\ \A e \in last'.errors :
                e[1] \in DOMAIN inp'.vals \cup inp'.nulls \/ e[2] = "missing"]_vars

C6_Witness ==
    /\ last.op = "UpdateSwitchDevice" /\ last.result = "ValidationError"
    /\ <<"longitude", "decimal_whole_digits">> \in last.errors
    /\ Given(inp, "nomor_seri") /\ devices[last.id].nomor_seri # inp.vals.nomor_seri
    /\ users # <<>>

\* C7: every stored MaintenanceRecord's switch_device_id is the id of a
\* stored SwitchDevice and its teknisi_id the id of a stored User, whatever
\* creates, updates and deletes ran; a create naming no stored row is refused.
C7_RecordReferencesExist ==
    /\ \A r \in DOMAIN records :
          /\ records[r].switch_device_id \in DOMAIN devices
          /\ records[r].teknisi_id \in DOMAIN users
    /\ last.op = "CreateMaintenanceRecord" /\ last.errors = {}
       /\ (inp.vals.switch_device_id \notin DOMAIN devices
            \/ inp.vals.teknisi_id \notin DOMAIN users)
          => last.result = "IntegrityError" /\ last.id \notin DOMAIN records

C7_Witness ==
    /\ last.op = "DeleteUser" /\ last.result = "IntegrityError"
    /\ \E r \in DOMAIN records : records[r].teknisi_id = last.id

Timestamped(rows, rowsAfter, t) ==
    /\ \A id \in DOMAIN rowsAfter \ DOMAIN rows :
          rowsAfter[id].created_at = t /\ rowsAfter[id].updated_at = t
    /\ \A id \in DOMAIN rowsAfter \cap DOMAIN rows :
          /\ rowsAfter[id].created_at = rows[id].created_at
          /\ rowsAfter[id] # rows[id] => rowsAfter[id].updated_at = t
    /\ \A id \in DOMAIN rowsAfter : rowsAfter[id].updated_at >= rowsAfter[id].created_at

\* C8: created_at and updated_at are set when a row is created, created_at
\* never changes, and every later change of the row sets updated_at to the
\* time of the change, so updated_at is never before created_at.
C8_UpdatedAtFollowsMutation ==
    [][/\ Timestamped(users, users', now')
       /\ Timestamped(devices, devices', now')
       /\ Timestamped(records, records', now')]_vars

\* C9: no two stored Users share a username or an email and no two stored
\* SwitchDevices share a nomor_seri; a create or update that would make a
\* duplicate is refused and changes nothing.
C9_UniqueColumns ==
    /\ [](/\ \A a, b \in DOMAIN users : a # b =>
                users[a].username # users[b].username /\ users[a].email # users[b].email
          /\ \A a, b \in DOMAIN devices : a # b =>
                devices[a].nomor_seri # devices[b].nomor_seri)
    /\ [][last'.result = "IntegrityError" =>
             users' = users /\ devices' = devices /\ records' = records]_vars

C9_Witness ==
    /\ last.op = "UpdateUser" /\ last.result = "IntegrityError"
    /\ Given(inp, "email") /\ \E u \in DOMAIN users : u # last.id /\ users[u].email = inp.vals.email
    /\ devices # <<>>

\* C10: the nama_teknisi of every stored MaintenanceRecord equals the
\* nama_lengkap of the User its teknisi_id references.
C10_NamaTeknisiInSync ==
    \A r \in DOMAIN records :
        records[r].teknisi_id \in DOMAIN users
            => records[r].nama_teknisi = users[records[r].teknisi_id].nama_lengkap

====
